---- MODULE Spec2Model ----
(***************************************************************************)
(* The HTTP bootstrap service of src/src/index.js.                         *)
(*                                                                         *)
(* index.js holds two variants of the bootstrap script one after the       *)
(* other: lines 1-34 (with a redis client) and lines 36-63 (without).      *)
(* Each is modelled as a program of its own, selected by `variant` (read    *)
(* as one script the file declares `const express` twice and does not      *)
(* compile at all).                                                        *)
(*                                                                         *)
(* The script runs on Node's single-threaded event loop:                   *)
(*   - the top-level statements run to completion, one after the other     *)
(*     (pc), and no callback runs before the last of them has returned;    *)
(*   - then the process.nextTick queue is drained (ticks): this is where   *)
(*     net.Server emits 'listening' or 'error' after listen();             *)
(*   - then I/O callbacks run, one at a time, in any order (pc = "loop").  *)
(* An exception nobody catches ends the process (proc = "crashed").        *)
(***************************************************************************)
EXTENDS Integers, Sequences, FiniteSets, TLC

VARIABLES
    variant,      \* 1: lines 1-34 of index.js, 2: lines 36-63
    host,         \* what the hosting runtime provides to the script
    envPORT,      \* the PORT environment variable of the process
    pc,           \* the next top-level statement, "tick" or "loop"
    proc,         \* "running" or "crashed"
    PORT,         \* const PORT (line 6 / 40)
    routes,       \* the routes registered on app
    redisClient,  \* const redisClient (line 10) and its connection
    db,           \* the mongoose connection (lines 22-27)
    svc,          \* "starting" or "listening"
    boundPort,    \* the port the listener is bound to, 0 when none
    ticks,        \* the process.nextTick queue
    log,          \* the lines written by console.log, in order
    reqs,         \* the HTTP requests received, with their responses
    serverJs      \* the process of the documented example server.js

vars == <<variant, host, envPORT, pc, proc, PORT, routes, redisClient, db,
          svc, boundPort, ticks, log, reqs, serverJs>>

----------------------------------------------------------------------------
(* Bounds of the model. *)

\* HTTP requests received in one run.
MaxReq == 2
\* 'error' events the cache client emits in one run.
MaxCacheErrors == 2
\* Connections the example server.js accepts in one run.
MaxConn == 2
\* SIGTERM signals sent to the example server.js in one run.
MaxSigterm == 2

----------------------------------------------------------------------------
(* JavaScript values. A string is a sequence of one-character strings. *)

Digits == <<"0", "1", "2", "3", "4", "5", "6", "7", "8", "9">>

DigitValue(c) == (CHOOSE i \in 1..10 : Digits[i] = c) - 1

\* Number(s) for a string of decimal digits.
RECURSIVE ToNumber(_)
ToNumber(s) ==
    IF s = <<>> THEN 0
    ELSE 10 * ToNumber(SubSeq(s, 1, Len(s) - 1)) + DigitValue(s[Len(s)])

\* String(n) for a non-negative integer.
RECURSIVE NumToString(_)
NumToString(n) ==
    IF n < 10 THEN <<Digits[n + 1]>>
    ELSE Append(NumToString(n \div 10), Digits[(n % 10) + 1])

\* A value of the script: undefined, a string or a number.
Undefined == [kind |-> "undefined", s |-> <<>>, n |-> 0]
Str(s)    == [kind |-> "string", s |-> s, n |-> 0]
Num(n)    == [kind |-> "number", s |-> <<>>, n |-> n]

\* ToBoolean: undefined, "" and 0 are falsy.
Truthy(v) ==
    CASE v.kind = "undefined" -> FALSE
      [] v.kind = "string"    -> v.s # <<>>
      [] OTHER                -> v.n # 0

\* The template literal `${v}`.
TemplateString(v) ==
    CASE v.kind = "undefined" -> <<"u", "n", "d", "e", "f", "i", "n", "e", "d">>
      [] v.kind = "string"    -> v.s
      [] OTHER                -> NumToString(v.n)

----------------------------------------------------------------------------
(* The environment of one run. *)

\* The values of the PORT environment variable that are tried.
PortStrings ==
    { <<>>, <<"0">>, <<"3", "0", "0", "0">>, <<"4", "0", "0", "0">>,
      <<"7", "0", "0", "0", "0">> }

\* process.env.PORT: undefined when the variable is unset.
EnvValues == {Undefined} \cup {Str(s) : s \in PortStrings}

\* The runtime that hosts the script: whether its module loader resolves the
\* empty specifier of require("") (Node's does not: it throws), and whether
\* its global scope binds the identifier `Process` (Node's binds `process`
\* only, so reading `Process` throws a ReferenceError). A host that provides
\* both binds `Process` to the process object.
Hosts == [resolvesEmptyId : BOOLEAN, bindsProcess : BOOLEAN]

\* The ports the operating system hands out for a listen on port 0.
EphemeralPorts == {49152, 49153}

----------------------------------------------------------------------------
(* The program's constants and pure parts. *)

\* The default of `Process.env.PORT || 4000` (line 6 / 40).
DefaultPort == 4000

\* `v || 4000`: v when it is truthy, the number 4000 otherwise.
OrDefault(v) == IF Truthy(v) THEN v ELSE Num(DefaultPort)

\* The body sent by the handler of the one route (line 29 / 58).
HelloBody == "Hello, Worlds!"

\* The port number net.Server.listen() derives from its first argument:
\* a string of digits is converted, undefined means "any port" (0).
ListenPort(v) ==
    CASE v.kind = "number" -> v.n
      [] v.kind = "string" -> ToNumber(v.s)
      [] OTHER             -> 0

\* Respond with a handler that serves the greeting from the cache when the
\* cache client is connected.
RespondFromCache(rs, method, path) ==
    IF <<method, path>> \in rs
        THEN [status |-> 200,
              body |-> IF redisClient.state = "connected"
                          THEN "Hello, Worlds! (cached)" ELSE HelloBody]
    ELSE [status |-> 404, body |-> "Not Found"]

\* Respond with a handler that reports the state of the document store.
RespondWithDbStatus(rs, method, path) ==
    IF <<method, path>> \in rs
        THEN [status |-> IF db.state = "failed" THEN 500 ELSE 200,
              body |-> HelloBody]
    ELSE [status |-> 404, body |-> "Not Found"]

\* Respond with a handler that answers 503 unless both stores are connected.
RespondWhenStoresUp(rs, method, path) ==
    IF <<method, path>> \in rs
        THEN IF db.state = "connected" /\ redisClient.state \in {"none", "connected"}
                THEN [status |-> 200, body |-> HelloBody]
                ELSE [status |-> 503, body |-> "Service Unavailable"]
    ELSE [status |-> 404, body |-> "Not Found"]

\* express's answer to a request, given the registered routes: the handler
\* of the route that matches method and path, whose res.send() of a string
\* answers 200 with that string, and the default 404 when no route matches.
Respond(rs, method, path) ==
    IF <<method, path>> \in rs
        THEN [status |-> 200, body |-> HelloBody]
    ELSE [status |-> 404, body |-> "Not Found"]

\* The requests that are tried.
Methods == {"GET", "POST"}
Paths   == {"/", "/health"}

\* One console.log line: its fixed text and the value appended to it.
Line(text, arg) == <<text, arg>>

Crash == proc' = "crashed"

\* The process of the example server.js before its first statement: its
\* position in the script, its PORT constant, whether the SIGTERM listener
\* is registered, the http.Server (state, bound port, open connections and
\* connections accepted so far, callbacks waiting for 'close'), the SIGTERM
\* signals sent and those not yet delivered, the nextTick queue, the log,
\* and how the process ended.
ServerJsStart ==
    [pc |-> "setup", proc |-> "running", exitCode |-> Undefined,
     PORT |-> Undefined, onSigterm |-> FALSE,
     state |-> "none", port |-> 0, conns |-> 0, accepted |-> 0,
     closeCallbacks |-> 0, sent |-> 0, pending |-> 0,
     ticks |-> <<>>, log |-> <<>>]

----------------------------------------------------------------------------
Init ==
    /\ variant \in {1, 2}
    /\ host \in Hosts
    /\ envPORT \in EnvValues
    /\ pc = "require"
    /\ proc = "running"
    /\ PORT = Undefined
    /\ routes = {}
    /\ redisClient = [created |-> 0, observers |-> {}, state |-> "none",
                      connectCalls |-> 0, attempts |-> 0, errors |-> 0]
    /\ db = [state |-> "none", connectCalls |-> 0]
    /\ svc = "starting"
    /\ boundPort = 0
    /\ ticks = <<>>
    /\ log = <<>>
    /\ reqs = <<>>
    /\ serverJs = ServerJsStart

----------------------------------------------------------------------------
(* The top-level statements of the script, in source order. *)

Running(label) == proc = "running" /\ pc = label

\* Lines 1-3 / 36-37: the require() calls. require("") throws unless the
\* host's loader resolves the empty specifier.
RequireModules ==
    /\ Running("require")
    /\ IF host.resolvesEmptyId
          THEN pc' = "port" /\ UNCHANGED proc
          ELSE Crash /\ UNCHANGED pc
    /\ UNCHANGED <<serverJs, variant, host, envPORT, PORT, routes, redisClient, db,
                   svc, boundPort, ticks, log, reqs>>

\* Line 6 / 40: const PORT = Process.env.PORT || 4000. Reading the unbound
\* identifier `Process` throws a ReferenceError.
ResolvePort ==
    /\ Running("port")
    /\ IF host.bindsProcess
          THEN PORT' = OrDefault(envPORT) /\ pc' = "app" /\ UNCHANGED proc
          ELSE Crash /\ UNCHANGED <<PORT, pc>>
    /\ UNCHANGED <<serverJs, variant, host, envPORT, routes, redisClient, db,
                   svc, boundPort, ticks, log, reqs>>

\* Line 7 / 41: const app = express(). The second variant has no redis
\* client and goes on to the database.
CreateApp ==
    /\ Running("app")
    /\ pc' = IF variant = 1 THEN "createClient" ELSE "dbConnect"
    /\ UNCHANGED <<serverJs, variant, host, envPORT, proc, PORT, routes, redisClient,
                   db, svc, boundPort, ticks, log, reqs>>

\* Line 10: const redisClient = redis.createClient().
CreateRedisClient ==
    /\ Running("createClient")
    /\ redisClient' = [redisClient EXCEPT !.created = @ + 1, !.state = "idle"]
    /\ pc' = "onError"
    /\ UNCHANGED <<serverJs, variant, host, envPORT, proc, PORT, routes, db,
                   svc, boundPort, ticks, log, reqs>>

\* Line 11 left out: no observer of 'error' is registered.
SkipErrorObserver ==
    /\ Running("onError")
    /\ pc' = "onConnect"
    /\ UNCHANGED <<serverJs, variant, host, envPORT, proc, PORT, routes, redisClient,
                   db, svc, boundPort, ticks, log, reqs>>

\* Line 11: redisClient.on("error", ...).
RegisterErrorObserver ==
    /\ Running("onError")
    /\ redisClient' = [redisClient EXCEPT !.observers = @ \cup {"error"}]
    /\ pc' = "onConnect"
    /\ UNCHANGED <<serverJs, variant, host, envPORT, proc, PORT, routes, db,
                   svc, boundPort, ticks, log, reqs>>

\* Line 12 left out: no observer of 'connect' is registered.
SkipConnectObserver ==
    /\ Running("onConnect")
    /\ pc' = "redisConnect"
    /\ UNCHANGED <<serverJs, variant, host, envPORT, proc, PORT, routes, redisClient,
                   db, svc, boundPort, ticks, log, reqs>>

\* Line 12: redisClient.on("connect", ...).
RegisterConnectObserver ==
    /\ Running("onConnect")
    /\ redisClient' = [redisClient EXCEPT !.observers = @ \cup {"connect"}]
    /\ pc' = "redisConnect"
    /\ UNCHANGED <<serverJs, variant, host, envPORT, proc, PORT, routes, db,
                   svc, boundPort, ticks, log, reqs>>

\* RedisConnectCall as `await redisClient.connect()`: the script goes on only
\* when the connection is established.
RedisConnectAwaited ==
    /\ Running("redisConnect")
    /\ redisClient' = [redisClient EXCEPT !.state = "connected",
                                          !.connectCalls = @ + 1,
                                          !.attempts = @ + 1]
    /\ log' = Append(log, Line("Redis Client Connected", <<>>))
    /\ pc' = "dbConnect"
    /\ UNCHANGED <<serverJs, variant, host, envPORT, proc, PORT, routes, db,
                   svc, boundPort, ticks, reqs>>

\* Line 13: redisClient.connect(). The call returns at once; the attempt
\* completes in the event loop.
RedisConnectCall ==
    /\ Running("redisConnect")
    /\ redisClient' = [redisClient EXCEPT !.state = "connecting",
                                          !.connectCalls = @ + 1,
                                          !.attempts = @ + 1]
    /\ pc' = "dbConnect"
    /\ UNCHANGED <<serverJs, variant, host, envPORT, proc, PORT, routes, db,
                   svc, boundPort, ticks, log, reqs>>

\* MongooseConnectCall as `await mongoose.connect(URI)` with a store that
\* does not answer: the script is suspended at this statement until the
\* promise settles.
MongooseConnectAwaitedPending ==
    /\ Running("dbConnect")
    /\ db.state = "none"
    /\ db' = [db EXCEPT !.state = "connecting", !.connectCalls = @ + 1]
    /\ UNCHANGED <<serverJs, variant, host, envPORT, pc, proc, PORT, routes,
                   redisClient, svc, boundPort, ticks, log, reqs>>

\* MongooseConnectCall as `await mongoose.connect(URI)`: the script goes on
\* only when the connection is established.
MongooseConnectAwaited ==
    /\ Running("dbConnect")
    /\ db' = [db EXCEPT !.state = "connected", !.connectCalls = @ + 1]
    /\ log' = Append(log, Line("connect to db ....", <<>>))
    /\ pc' = "route"
    /\ UNCHANGED <<serverJs, variant, host, envPORT, proc, PORT, routes, redisClient,
                   svc, boundPort, ticks, reqs>>

\* Lines 16-27 / 44-56: mongoose.connect(URI).then(...).catch(...). The call
\* returns a promise at once; it settles in the event loop.
MongooseConnectCall ==
    /\ Running("dbConnect")
    /\ db' = [db EXCEPT !.state = "connecting", !.connectCalls = @ + 1]
    /\ pc' = "route"
    /\ UNCHANGED <<serverJs, variant, host, envPORT, proc, PORT, routes, redisClient,
                   svc, boundPort, ticks, log, reqs>>

\* RegisterRoute moved into a callback that has not run when the script
\* reaches app.listen: the statement registers nothing.
RegisterRouteDeferred ==
    /\ Running("route")
    /\ pc' = "listen"
    /\ UNCHANGED <<serverJs, variant, host, envPORT, proc, PORT, routes, redisClient,
                   db, svc, boundPort, ticks, log, reqs>>

\* RegisterRoute with app.all("/", ...): the handler serves every method.
RegisterRouteAllMethods ==
    /\ Running("route")
    /\ routes' = routes \cup {<<m, "/">> : m \in Methods}
    /\ pc' = "listen"
    /\ UNCHANGED <<serverJs, variant, host, envPORT, proc, PORT, redisClient, db,
                   svc, boundPort, ticks, log, reqs>>

\* Lines 28-30 / 57-59: app.get("/", ...).
RegisterRoute ==
    /\ Running("route")
    /\ routes' = routes \cup {<<"GET", "/">>}
    /\ pc' = "listen"
    /\ UNCHANGED <<serverJs, variant, host, envPORT, proc, PORT, redisClient, db,
                   svc, boundPort, ticks, log, reqs>>

\* Lines 32-34 / 61-63: app.listen(PORT, callback). express (4.x) creates an
\* http.Server and calls server.listen(PORT, callback): the callback is
\* registered for 'listening' only. listen() throws on a port above 65535;
\* otherwise it binds before it returns and queues, on process.nextTick,
\* 'listening' when the bind succeeded and 'error' when it failed (the port
\* is in use). Port 0 binds a port of the operating system's choice.
Listen ==
    /\ Running("listen")
    /\ LET n == ListenPort(PORT) IN
       IF n > 65535
          THEN Crash /\ UNCHANGED <<pc, svc, boundPort, ticks>>
          ELSE \E free \in BOOLEAN, any \in EphemeralPorts :
                 /\ pc' = "tick"
                 /\ UNCHANGED proc
                 /\ IF free
                       THEN /\ svc' = "listening"
                            /\ boundPort' = IF n = 0 THEN any ELSE n
                            /\ ticks' = Append(ticks, "listening")
                       ELSE /\ ticks' = Append(ticks, "error")
                            /\ UNCHANGED <<svc, boundPort>>
    /\ UNCHANGED <<serverJs, variant, host, envPORT, PORT, routes, redisClient, db,
                   log, reqs>>

----------------------------------------------------------------------------
(* After the last statement: the nextTick queue, then the event loop. *)

\* The callback of app.listen (line 33 / 62).
OnListening == log' = Append(log, Line("Server is running on port ",
                                       TemplateString(PORT)))

\* NextTick with the callback of app.listen registered for 'error' as well
\* (what express 5 does): a failed bind runs the callback and the process
\* goes on.
NextTickCallbackOnError ==
    /\ Running("tick")
    /\ ticks # <<>>
    /\ ticks' = Tail(ticks)
    /\ OnListening
    /\ UNCHANGED <<serverJs, variant, host, envPORT, pc, proc, PORT, routes,
                   redisClient, db, svc, boundPort, reqs>>

\* The head of the nextTick queue runs. The server's 'error' event has no
\* listener, so emitting it throws and the exception ends the process.
NextTick ==
    /\ Running("tick")
    /\ ticks # <<>>
    /\ ticks' = Tail(ticks)
    /\ IF Head(ticks) = "listening"
          THEN OnListening /\ UNCHANGED proc
          ELSE Crash /\ UNCHANGED log
    /\ UNCHANGED <<serverJs, variant, host, envPORT, pc, PORT, routes, redisClient, db,
                   svc, boundPort, reqs>>

\* The nextTick queue is empty: the event loop starts to deliver I/O.
EnterLoop ==
    /\ Running("tick")
    /\ ticks = <<>>
    /\ pc' = "loop"
    /\ UNCHANGED <<serverJs, variant, host, envPORT, proc, PORT, routes, redisClient,
                   db, svc, boundPort, ticks, log, reqs>>

\* The observers of lines 11 and 12.
OnRedisError(err) == log' = Append(log, Line("Redis Client Error", <<err>>))

OnRedisConnect == log' = Append(log, Line("Redis Client Connected", <<>>))

\* The cache client's socket connects: the client emits 'connect'.
RedisConnected ==
    /\ Running("loop")
    /\ redisClient.state = "connecting"
    /\ redisClient' = [redisClient EXCEPT !.state = "connected"]
    /\ IF "connect" \in redisClient.observers
          THEN OnRedisConnect
          ELSE UNCHANGED log
    /\ UNCHANGED <<serverJs, variant, host, envPORT, pc, proc, PORT, routes, db,
                   svc, boundPort, ticks, reqs>>

\* RedisError with an observer that gives up: it logs the error and calls
\* redisClient.quit().
RedisErrorThenQuit ==
    /\ Running("loop")
    /\ redisClient.state \in {"connecting", "connected"}
    /\ redisClient.errors < MaxCacheErrors
    /\ redisClient' = [redisClient EXCEPT !.state = "closed",
                                          !.errors = @ + 1]
    /\ log' = Append(log, Line("Redis Client Error", <<"ECONNREFUSED">>))
    /\ UNCHANGED <<serverJs, variant, host, envPORT, pc, proc, PORT, routes, db,
                   svc, boundPort, ticks, reqs>>

\* RedisError with an observer that calls redisClient.connect() again after
\* it has logged the error.
RedisErrorWithRetry ==
    /\ Running("loop")
    /\ redisClient.state \in {"connecting", "connected"}
    /\ redisClient.errors < MaxCacheErrors
    /\ redisClient' = [redisClient EXCEPT !.state = "connecting",
                                          !.errors = @ + 1,
                                          !.connectCalls = @ + 1,
                                          !.attempts = @ + 1]
    /\ log' = Append(log, Line("Redis Client Error", <<"ECONNREFUSED">>))
    /\ UNCHANGED <<serverJs, variant, host, envPORT, pc, proc, PORT, routes, db,
                   svc, boundPort, ticks, reqs>>

\* The cache client's attempt fails, or its connection breaks: the client
\* emits 'error'. An 'error' event without a listener throws.
RedisError ==
    /\ Running("loop")
    /\ redisClient.state \in {"connecting", "connected"}
    /\ redisClient.errors < MaxCacheErrors
    /\ redisClient' = [redisClient EXCEPT !.state = "failed",
                                          !.errors = @ + 1]
    /\ LET err == IF redisClient.state = "connecting"
                     THEN "ECONNREFUSED" ELSE "ECONNRESET" IN
       IF "error" \in redisClient.observers
          THEN OnRedisError(err) /\ UNCHANGED proc
          ELSE Crash /\ UNCHANGED log
    /\ UNCHANGED <<serverJs, variant, host, envPORT, pc, PORT, routes, db,
                   svc, boundPort, ticks, reqs>>

\* The client of redis.createClient() (line 10) was given no
\* socket.reconnectStrategy: by the library's default it connects again
\* after an error, without any call of the script.
RedisReconnect ==
    /\ Running("loop")
    /\ redisClient.state = "failed"
    /\ redisClient' = [redisClient EXCEPT !.state = "connecting",
                                          !.attempts = @ + 1]
    /\ UNCHANGED <<serverJs, variant, host, envPORT, pc, proc, PORT, routes, db,
                   svc, boundPort, ticks, log, reqs>>

\* The promise of mongoose.connect() is fulfilled: the .then callback
\* (lines 24-26).
DbConnected ==
    /\ Running("loop")
    /\ db.state = "connecting"
    /\ db' = [db EXCEPT !.state = "connected"]
    /\ log' = Append(log, Line("connect to db ....", <<>>))
    /\ UNCHANGED <<serverJs, variant, host, envPORT, pc, proc, PORT, routes,
                   redisClient, svc, boundPort, ticks, reqs>>

\* DbFailed with the callbacks chained the other way round,
\* mongoose.connect(URI).catch(...).then(...): the .catch callback returns
\* normally, which fulfils the promise the .then callback waits for.
DbFailedCatchThenThen ==
    /\ Running("loop")
    /\ db.state = "connecting"
    /\ db' = [db EXCEPT !.state = "failed"]
    /\ log' = log \o <<Line("failed to connect to db  ",
                            <<"MongooseServerSelectionError">>),
                       Line("connect to db ....", <<>>)>>
    /\ UNCHANGED <<serverJs, variant, host, envPORT, pc, proc, PORT, routes,
                   redisClient, svc, boundPort, ticks, reqs>>

\* DbFailed with a .catch that logs and calls mongoose.connect(URI) again.
DbFailedWithRetry ==
    /\ Running("loop")
    /\ db.state = "connecting"
    /\ db.connectCalls < 3
    /\ db' = [db EXCEPT !.connectCalls = @ + 1]
    /\ log' = Append(log, Line("failed to connect to db  ",
                               <<"MongooseServerSelectionError">>))
    /\ UNCHANGED <<serverJs, variant, host, envPORT, pc, proc, PORT, routes,
                   redisClient, svc, boundPort, ticks, reqs>>

\* DbFailed without the .catch of line 27: the rejection is unhandled, which
\* ends the process.
DbFailedUnhandled ==
    /\ Running("loop")
    /\ db.state = "connecting"
    /\ db' = [db EXCEPT !.state = "failed"]
    /\ Crash
    /\ UNCHANGED <<serverJs, variant, host, envPORT, pc, PORT, routes, log,
                   redisClient, svc, boundPort, ticks, reqs>>

\* The promise of mongoose.connect() is rejected: the .catch callback
\* (line 27).
DbFailed ==
    /\ Running("loop")
    /\ db.state = "connecting"
    /\ db' = [db EXCEPT !.state = "failed"]
    /\ log' = Append(log, Line("failed to connect to db  ",
                               <<"MongooseServerSelectionError">>))
    /\ UNCHANGED <<serverJs, variant, host, envPORT, pc, proc, PORT, routes,
                   redisClient, svc, boundPort, ticks, reqs>>

----------------------------------------------------------------------------
(* HTTP. *)

NoResponse == [status |-> 0, body |-> ""]

\* A client's request reaches the bound socket. The operating system takes
\* connections as soon as the socket listens; the script sees them later.
Arrive(method, path) ==
    /\ proc = "running"
    /\ svc = "listening"
    /\ Len(reqs) < MaxReq
    /\ reqs' = Append(reqs, [method |-> method, path |-> path,
                             resp |-> NoResponse])
    /\ UNCHANGED <<serverJs, variant, host, envPORT, pc, proc, PORT, routes,
                   redisClient, db, svc, boundPort, ticks, log>>

\* Handle with the request listener registered by server.once('request'):
\* only the first request is dispatched.
HandleFirstOnly(i) ==
    /\ Running("loop")
    /\ reqs[i].resp = NoResponse
    /\ \A j \in DOMAIN reqs : reqs[j].resp = NoResponse
    /\ reqs' = [reqs EXCEPT ![i].resp =
                   Respond(routes, reqs[i].method, reqs[i].path)]
    /\ UNCHANGED <<serverJs, variant, host, envPORT, pc, proc, PORT, routes,
                   redisClient, db, svc, boundPort, ticks, log>>

\* Handle with a handler that creates a cache client of its own for every
\* request.
HandleCreatesClient(i) ==
    /\ Running("loop")
    /\ reqs[i].resp = NoResponse
    /\ reqs' = [reqs EXCEPT ![i].resp =
                   Respond(routes, reqs[i].method, reqs[i].path)]
    /\ redisClient' = [redisClient EXCEPT !.created = @ + 1]
    /\ UNCHANGED <<serverJs, variant, host, envPORT, pc, proc, PORT, routes,
                   db, svc, boundPort, ticks, log>>

\* Handle with a handler that counts the hit in the cache: a command on a
\* client whose connection has failed makes the client connect again.
HandleTouchesCache(i) ==
    /\ Running("loop")
    /\ reqs[i].resp = NoResponse
    /\ reqs' = [reqs EXCEPT ![i].resp =
                   Respond(routes, reqs[i].method, reqs[i].path)]
    /\ redisClient' = IF redisClient.state = "failed"
                         THEN [redisClient EXCEPT !.state = "connecting",
                                                  !.attempts = @ + 1]
                         ELSE redisClient
    /\ UNCHANGED <<serverJs, variant, host, envPORT, pc, proc, PORT, routes,
                   db, svc, boundPort, ticks, log>>

\* Handle with the response object kept in one variable shared by all
\* requests: the answer goes to the request that arrived last.
HandleSharedRes(i) ==
    /\ Running("loop")
    /\ reqs[i].resp = NoResponse
    /\ reqs' = [reqs EXCEPT ![Len(reqs)].resp =
                   Respond(routes, reqs[i].method, reqs[i].path)]
    /\ UNCHANGED <<serverJs, variant, host, envPORT, pc, proc, PORT, routes,
                   redisClient, db, svc, boundPort, ticks, log>>

\* express dispatches request i; for GET / that is the handler of lines
\* 28-30 / 57-59, res.send("Hello, Worlds!").
Handle(i) ==
    /\ Running("loop")
    /\ reqs[i].resp = NoResponse
    /\ reqs' = [reqs EXCEPT ![i].resp =
                   Respond(routes, reqs[i].method, reqs[i].path)]
    /\ UNCHANGED <<serverJs, variant, host, envPORT, pc, proc, PORT, routes,
                   redisClient, db, svc, boundPort, ticks, log>>

----------------------------------------------------------------------------
Next ==
    \/ RequireModules
    \/ ResolvePort
    \/ CreateApp
    \/ CreateRedisClient
    \/ RegisterErrorObserver
    \/ RegisterConnectObserver
    \/ RedisConnectCall
    \/ MongooseConnectCall
    \/ RegisterRoute
    \/ Listen
    \/ NextTick
    \/ EnterLoop
    \/ RedisConnected
    \/ RedisError
    \/ RedisReconnect
    \/ DbConnected
    \/ DbFailed
    \/ \E m \in Methods, p \in Paths : Arrive(m, p)
    \/ \E i \in DOMAIN reqs : Handle(i)

Spec == Init /\ [][Next]_vars

\* The top-level statements of the script.
Script ==
    \/ RequireModules
    \/ ResolvePort
    \/ CreateApp
    \/ CreateRedisClient
    \/ RegisterErrorObserver
    \/ RegisterConnectObserver
    \/ RedisConnectCall
    \/ MongooseConnectCall
    \/ RegisterRoute
    \/ Listen

\* The runtime keeps running what is its own to run: the next statement of
\* the script, the next entry of the nextTick queue, the turn to the event
\* loop and the dispatch of a request that has been received. Nothing is
\* assumed of the network: a connection attempt may stay pending for ever
\* and no client need ever send a request.
LiveSpec ==
    /\ Spec
    /\ WF_vars(Script)
    /\ WF_vars(NextTick)
    /\ WF_vars(EnterLoop)
    /\ WF_vars(\E i \in DOMAIN reqs : Handle(i))

----------------------------------------------------------------------------
(* The example server.js of the documentation (src/unnamed/part_003, lines *)
(* 21-63), a process of its own with the same event loop.                  *)

\* The default of `process.env.PORT || 3000` (line 23).
ServerDefaultPort == 3000

\* The process of index.js is not part of a run of server.js.
IndexJsIdle ==
    UNCHANGED <<variant, host, envPORT, pc, proc, PORT, routes, redisClient,
                db, svc, boundPort, ticks, log, reqs>>

SjRunning(label) == serverJs.proc = "running" /\ serverJs.pc = label

\* Lines 21-50: express, app, PORT, the JSON middleware and three routes.
SjSetup ==
    /\ SjRunning("setup")
    /\ serverJs' = [serverJs EXCEPT
          !.PORT = IF Truthy(envPORT) THEN envPORT ELSE Num(ServerDefaultPort),
          !.pc = "on"]
    /\ IndexJsIdle

\* Line 53: process.on('SIGTERM', ...).
SjProcessOn ==
    /\ SjRunning("on")
    /\ serverJs' = [serverJs EXCEPT !.onSigterm = TRUE, !.pc = "listen"]
    /\ IndexJsIdle

\* Lines 61-63: const server = app.listen(PORT, callback), as in index.js.
SjListen ==
    /\ SjRunning("listen")
    /\ LET n == ListenPort(serverJs.PORT) IN
       IF n > 65535
          THEN serverJs' = [serverJs EXCEPT !.proc = "crashed"]
          ELSE \E free \in BOOLEAN, any \in EphemeralPorts :
                 serverJs' =
                    IF free
                       THEN [serverJs EXCEPT
                               !.pc = "tick",
                               !.state = "listening",
                               !.port = IF n = 0 THEN any ELSE n,
                               !.ticks = Append(@, "listening")]
                       ELSE [serverJs EXCEPT
                               !.pc = "tick",
                               !.ticks = Append(@, "error")]
    /\ IndexJsIdle

\* The head of the nextTick queue: the callback of line 62 for 'listening';
\* 'error' has no listener and ends the process.
SjNextTick ==
    /\ SjRunning("tick")
    /\ serverJs.ticks # <<>>
    /\ serverJs' =
          IF Head(serverJs.ticks) = "listening"
             THEN [serverJs EXCEPT
                     !.ticks = Tail(@),
                     !.log = Append(@, Line("Server running on port ",
                                            TemplateString(serverJs.PORT)))]
             ELSE [serverJs EXCEPT !.ticks = Tail(@), !.proc = "crashed"]
    /\ IndexJsIdle

SjEnterLoop ==
    /\ SjRunning("tick")
    /\ serverJs.ticks = <<>>
    /\ serverJs' = [serverJs EXCEPT !.pc = "loop"]
    /\ IndexJsIdle

\* A client connects to the listening server.
SjConnect ==
    /\ serverJs.proc = "running"
    /\ serverJs.state = "listening"
    /\ serverJs.accepted < MaxConn
    /\ serverJs' = [serverJs EXCEPT !.conns = @ + 1, !.accepted = @ + 1]
    /\ IndexJsIdle

\* A connection ends: its request is answered and the client closes, or the
\* server's keep-alive timeout closes it.
SjDisconnect ==
    /\ SjRunning("loop")
    /\ serverJs.conns > 0
    /\ serverJs' = [serverJs EXCEPT !.conns = @ - 1]
    /\ IndexJsIdle

\* A SIGTERM is sent to the process. Without a listener the signal's default
\* action ends the process; with the listener of line 53 the signal waits
\* for the event loop.
SjSigterm ==
    /\ serverJs.proc = "running"
    /\ serverJs.sent < MaxSigterm
    /\ serverJs' =
          IF serverJs.onSigterm
             THEN [serverJs EXCEPT !.sent = @ + 1, !.pending = @ + 1]
             ELSE [serverJs EXCEPT !.sent = @ + 1, !.proc = "killed"]
    /\ IndexJsIdle

\* SjOnSigterm with a handler that does not wait for the close:
\* server.close(); process.exit(0).
SjOnSigtermExitsAtOnce ==
    /\ SjRunning("loop")
    /\ serverJs.pending > 0
    /\ serverJs' = [serverJs EXCEPT
          !.pending = @ - 1,
          !.log = Append(@, Line("SIGTERM signal received: closing HTTP server",
                                 <<>>)),
          !.state = "closing",
          !.proc = "exited",
          !.exitCode = Num(0)]
    /\ IndexJsIdle

\* Lines 53-59, the SIGTERM listener: it logs and calls server.close(cb).
\* close() stops the server from accepting connections and keeps cb for the
\* 'close' event; called on a server that is closing already it keeps the
\* further cb for the same event.
SjOnSigterm ==
    /\ SjRunning("loop")
    /\ serverJs.pending > 0
    /\ serverJs' = [serverJs EXCEPT
          !.pending = @ - 1,
          !.log = Append(@, Line("SIGTERM signal received: closing HTTP server",
                                 <<>>)),
          !.state = "closing",
          !.closeCallbacks = @ + 1]
    /\ IndexJsIdle

\* The closing server's last connection has ended: it emits 'close' and the
\* first callback kept for it runs (lines 56-57), which logs and calls
\* process.exit(0).
SjServerClosed ==
    /\ SjRunning("loop")
    /\ serverJs.state = "closing"
    /\ serverJs.conns = 0
    /\ serverJs.closeCallbacks > 0
    /\ serverJs' = [serverJs EXCEPT
          !.state = "closed",
          !.log = Append(@, Line("HTTP server closed", <<>>)),
          !.proc = "exited",
          !.exitCode = Num(0)]
    /\ IndexJsIdle

ServerJsInit ==
    /\ variant = 1
    /\ host = [resolvesEmptyId |-> FALSE, bindsProcess |-> FALSE]
    /\ envPORT \in EnvValues
    /\ pc = "require"
    /\ proc = "running"
    /\ PORT = Undefined
    /\ routes = {}
    /\ redisClient = [created |-> 0, observers |-> {}, state |-> "none",
                      connectCalls |-> 0, attempts |-> 0, errors |-> 0]
    /\ db = [state |-> "none", connectCalls |-> 0]
    /\ svc = "starting"
    /\ boundPort = 0
    /\ ticks = <<>>
    /\ log = <<>>
    /\ reqs = <<>>
    /\ serverJs = ServerJsStart

ServerJsNext ==
    \/ SjSetup
    \/ SjProcessOn
    \/ SjListen
    \/ SjNextTick
    \/ SjEnterLoop
    \/ SjConnect
    \/ SjDisconnect
    \/ SjSigterm
    \/ SjOnSigterm
    \/ SjServerClosed

\* The runtime runs the script, the nextTick queue and the listeners of the
\* events that have occurred; every connection ends at some time. Nothing
\* is assumed of the clients that connect or of the sender of signals.
ServerJsSpec ==
    /\ ServerJsInit
    /\ [][ServerJsNext]_vars
    /\ WF_vars(SjSetup \/ SjProcessOn \/ SjListen)
    /\ WF_vars(SjNextTick)
    /\ WF_vars(SjEnterLoop)
    /\ WF_vars(SjDisconnect)
    /\ WF_vars(SjOnSigterm)
    /\ WF_vars(SjServerClosed)

----------------------------------------------------------------------------
(* Vocabulary of the properties. *)

Hello200 == [status |-> 200, body |-> HelloBody]

IsRootGet(r) == r.method = "GET" /\ r.path = "/"

Answered(r) == r.resp # NoResponse

\* The number of log lines with the given fixed text.
Lines(text) == Cardinality({i \in DOMAIN log : log[i][1] = text})

----------------------------------------------------------------------------
(* C1: whenever the service is listening, what it answers to GET / is 200  *)
(* with body "Hello, Worlds!", and every answer it has given to a GET /    *)
(* is that one, whatever the states of the cache and the document store.   *)
C1_RootAlwaysHello ==
    svc = "listening" =>
        /\ Respond(routes, "GET", "/") = Hello200
        /\ \A i \in DOMAIN reqs :
              IsRootGet(reqs[i]) /\ Answered(reqs[i]) => reqs[i].resp = Hello200

\* A GET / has been answered while both stores have failed.
C1_Witness ==
    /\ svc = "listening"
    /\ redisClient.state = "failed"
    /\ db.state = "failed"
    /\ \E i \in DOMAIN reqs : IsRootGet(reqs[i]) /\ Answered(reqs[i])

----------------------------------------------------------------------------
(* C2: GET / requests in flight at the same time, handled in any order,    *)
(* all get the same response (200, "Hello, Worlds!"), and handling one     *)
(* request never changes the response another request has got: a step      *)
(* answers at most one request and leaves every given answer as it is.     *)
C2_NoInterference ==
    /\ [](\A i, j \in DOMAIN reqs :
            /\ IsRootGet(reqs[i]) /\ Answered(reqs[i])
            /\ IsRootGet(reqs[j]) /\ Answered(reqs[j])
            => reqs[i].resp = reqs[j].resp /\ reqs[i].resp.status = 200)
    /\ [][/\ \A i \in DOMAIN reqs :
                Answered(reqs[i]) => reqs'[i].resp = reqs[i].resp
          /\ Cardinality({i \in DOMAIN reqs :
                ~Answered(reqs[i]) /\ Answered(reqs'[i])}) <= 1]_vars

\* Two GET / were in flight together and the later one was answered first.
C2_Witness ==
    /\ Len(reqs) = 2
    /\ IsRootGet(reqs[1]) /\ ~Answered(reqs[1])
    /\ IsRootGet(reqs[2]) /\ Answered(reqs[2])

----------------------------------------------------------------------------
(* C3: when the document-store connect attempt has failed, the process is  *)
(* still running and the listener is bound and answers GET / exactly as it *)
(* does when the attempt succeeded; the step in which the attempt fails    *)
(* changes nothing of the process, the listener or the routes.             *)
C3_DbFailureHarmless ==
    /\ [](db.state = "failed" =>
            /\ proc = "running"
            /\ svc = "listening"
            /\ Respond(routes, "GET", "/") = Hello200)
    /\ [](db.state \in {"failed", "connected"} =>
            \A i \in DOMAIN reqs :
               IsRootGet(reqs[i]) /\ Answered(reqs[i]) => reqs[i].resp = Hello200)
    /\ [][db.state # "failed" /\ db'.state = "failed" =>
            UNCHANGED <<proc, svc, boundPort, routes, reqs>>]_vars

\* The connect attempt has failed, its error is logged, the process runs and
\* a GET / has got its answer.
C3_Witness ==
    /\ db.state = "failed"
    /\ proc = "running"
    /\ Lines("failed to connect to db  ") = 1
    /\ \E i \in DOMAIN reqs : IsRootGet(reqs[i]) /\ Answered(reqs[i])

----------------------------------------------------------------------------
(* C4: the bind does not wait for the store connections: in the step that  *)
(* takes the service from starting to listening every connection attempt   *)
(* that was initiated is still pending, and the listening service is seen  *)
(* with each store pending as well as failed.                              *)
C4_BindDoesNotWait ==
    [][svc = "starting" /\ svc' = "listening" =>
          /\ db.state = "connecting"
          /\ variant = 1 => redisClient.state = "connecting"]_vars

\* Listening while the cache has failed and the document store is pending.
C4_Witness ==
    /\ svc = "listening"
    /\ redisClient.state = "failed"
    /\ db.state = "connecting"

----------------------------------------------------------------------------
\* The script has executed line 6 / 40, or has ended there.
PastPortResolution ==
    pc \notin {"require", "port"} \/ (pc = "port" /\ proc = "crashed")

(* C5: with the PORT variable unset, the port the service resolves is 4000 *)
(* and, once the script has run, the service is bound to port 4000 unless  *)
(* that port was in use.                                                   *)
C5_DefaultPort ==
    envPORT = Undefined =>
        /\ PastPortResolution => PORT = Num(DefaultPort)
        /\ svc = "listening" => boundPort = DefaultPort

----------------------------------------------------------------------------
\* A string of digits that denotes a port a process can ask for.
ValidPortString(v) ==
    v.kind = "string" /\ v.s # <<>> /\ ToNumber(v.s) \in 1..65535

(* C6: with the PORT variable set to a valid integer string, the port the  *)
(* service resolves is that string and the port it binds is its number.    *)
C6_EnvPort ==
    ValidPortString(envPORT) =>
        /\ PastPortResolution => PORT = envPORT
        /\ svc = "listening" => boundPort = ToNumber(envPORT.s)

----------------------------------------------------------------------------
(* C7, as stated: none of the three completions waits for another; in      *)
(* particular a pending cache connection can complete while the listener   *)
(* is not bound yet.                                                       *)
C7_NoForcedOrder ==
    /\ proc = "running"
    /\ svc = "starting"
    /\ redisClient.state = "connecting"
    => ENABLED RedisConnected

(* C7, amended: the listener is bound, and its confirmation logged, before *)
(* either connection attempt completes; after that the cache connection    *)
(* and the document-store connection complete in either order.             *)
C7_ListenerFirst ==
    /\ (\/ redisClient.state \in {"connected", "failed"}
        \/ redisClient.errors > 0
        \/ db.state \in {"connected", "failed"})
       => /\ svc = "listening"
          /\ log # <<>>
          /\ log[1][1] = "Server is running on port "
    /\ (/\ Running("loop")
        /\ redisClient.state = "connecting"
        /\ db.state = "connecting")
       => ENABLED RedisConnected /\ ENABLED DbConnected

\* The three completions in the order listener, document store, cache.
C7_Witness ==
    /\ Len(log) = 3
    /\ log[1][1] = "Server is running on port "
    /\ log[2][1] = "connect to db ...."
    /\ log[3][1] = "Redis Client Connected"

----------------------------------------------------------------------------
(* C8: the service is in one of the two states starting and listening; the *)
(* only transition is starting -> listening, taken by a successful bind;   *)
(* once listening it stays listening on the same port, and the program     *)
(* never ends a process whose service is listening.                        *)
C8_TwoStates ==
    /\ [](svc \in {"starting", "listening"})
    /\ [](svc = "listening" <=> boundPort # 0)
    /\ [](svc = "listening" => proc = "running")
    /\ [][svc' # svc =>
            svc = "starting" /\ svc' = "listening" /\ pc = "listen"]_vars
    /\ [][svc = "listening" =>
            svc' = "listening" /\ boundPort' = boundPort]_vars

\* The service has been listening through a cache error, a failed database
\* connection and a request.
C8_Witness ==
    /\ svc = "listening"
    /\ redisClient.errors = MaxCacheErrors
    /\ db.state = "failed"
    /\ \E i \in DOMAIN reqs : Answered(reqs[i])

----------------------------------------------------------------------------
\* The bind of app.listen has failed and its 'error' is about to be emitted.
BindErrorPending == pc = "tick" /\ ticks # <<>> /\ Head(ticks) = "error"

(* C9: when the bind fails, nothing of the program catches it: the pending *)
(* 'error' ends the process in its next step, the service is not and never *)
(* becomes listening, and the confirmation line is never logged.           *)
C9_BindFailureTerminates ==
    /\ []((BindErrorPending \/ (pc = "tick" /\ proc = "crashed")) =>
            /\ svc = "starting"
            /\ boundPort = 0
            /\ Lines("Server is running on port ") = 0)
    /\ [][BindErrorPending /\ proc = "running" => proc' = "crashed"]_vars
    /\ [][proc = "crashed" => UNCHANGED vars]_vars

\* The process has ended on a failed bind.
C9_Witness ==
    /\ pc = "tick"
    /\ proc = "crashed"
    /\ svc = "starting"
    /\ PORT # Undefined

----------------------------------------------------------------------------
----------------------------------------------------------------------------
(* C11: the document-store connect is attempted exactly once: once the     *)
(* script is past mongoose.connect the number of attempts is one and stays *)
(* one; after the attempt has failed the error is logged once, nothing of  *)
(* the connection changes any more, the process runs on and every request  *)
(* that waits for its answer can still be handled.                         *)
C11_DbConnectOnce ==
    /\ [](db.connectCalls <= 1)
    /\ [](db.state # "none" <=> db.connectCalls = 1)
    /\ [](db.state = "failed" =>
            /\ Lines("failed to connect to db  ") = 1
            /\ proc = "running"
            /\ svc = "listening"
            /\ \A i \in DOMAIN reqs : ~Answered(reqs[i]) => ENABLED Handle(i))
    /\ [][db.state = "failed" => db' = db]_vars

\* The attempt has failed; a request has been answered and another one is
\* waiting.
C11_Witness ==
    /\ db.state = "failed"
    /\ db.connectCalls = 1
    /\ \E i, j \in DOMAIN reqs : Answered(reqs[i]) /\ ~Answered(reqs[j])

----------------------------------------------------------------------------
\* Neither store has ever been reached in this run.
StoresUnreachable ==
    /\ Lines("Redis Client Connected") = 0
    /\ Lines("connect to db ....") = 0
    /\ redisClient.state # "connected"
    /\ db.state # "connected"

(* C12: started with the PORT variable unset and both stores unreachable,  *)
(* the process stays alive past its first statements, every GET / is       *)
(* answered 200 "Hello, Worlds!", and at most one error line per store is  *)
(* logged: two error lines in total once both attempts have failed.        *)
C12_UnreachableStoresScenario ==
    envPORT = Undefined /\ pc # "require" /\ StoresUnreachable =>
        /\ proc = "running"
        /\ \A i \in DOMAIN reqs :
              IsRootGet(reqs[i]) /\ Answered(reqs[i]) => reqs[i].resp = Hello200
        /\ Lines("Redis Client Error") <= 1
        /\ Lines("failed to connect to db  ") <= 1

\* C12 on a host that runs the script: only the count of the cache's error
\* lines is left to fail.
C12_TwoErrorLinesOnRunningHost ==
    envPORT = Undefined /\ StoresUnreachable /\ proc = "running" =>
        Lines("Redis Client Error") + Lines("failed to connect to db  ") <= 2

----------------------------------------------------------------------------
----------------------------------------------------------------------------
(* C14: a GET /health on the listening service is answered with status     *)
(* 200.                                                                    *)
C14_HealthEndpoint ==
    /\ svc = "listening" => Respond(routes, "GET", "/health").status = 200
    /\ \A i \in DOMAIN reqs :
          /\ reqs[i].method = "GET" /\ reqs[i].path = "/health"
          /\ Answered(reqs[i])
          => reqs[i].resp.status = 200

----------------------------------------------------------------------------
(* C15: one process holds at most one cache client and at most one         *)
(* document-store connection: each is created at most once, by the script, *)
(* and no step of the event loop (a request, a connection error, a         *)
(* reconnection of the cache client) creates another one.                  *)
C15_HandlesAreSingletons ==
    /\ [](redisClient.created <= 1 /\ db.connectCalls <= 1)
    /\ [](variant = 2 => redisClient.created = 0)
    /\ [][(pc \in {"tick", "loop"}) =>
            (/\ redisClient'.created = redisClient.created
             /\ db'.connectCalls = db.connectCalls)]_vars

\* Both handles exist after the cache has failed twice, the database once
\* and a request has been answered.
C15_Witness ==
    /\ redisClient.created = 1
    /\ db.connectCalls = 1
    /\ redisClient.errors = MaxCacheErrors
    /\ db.state = "failed"
    /\ \E i \in DOMAIN reqs : Answered(reqs[i])

----------------------------------------------------------------------------
(* C16: the program closes nothing: a cache client, once created, is idle, *)
(* connecting, connected or failed and never closed; the document-store    *)
(* connection, once initiated, is pending, connected or failed; and a      *)
(* listening service keeps its port and its process in every step.         *)
C16_NothingClosed ==
    /\ [](redisClient.created = 1 =>
            redisClient.state \in {"idle", "connecting", "connected", "failed"})
    /\ [](db.connectCalls = 1 =>
            db.state \in {"connecting", "connected", "failed"})
    /\ [][redisClient.created = 1 => redisClient'.created = 1]_vars
    /\ [][db.connectCalls = 1 => db'.connectCalls = 1]_vars
    /\ [][svc = "listening" =>
            (svc' = "listening" /\ boundPort' = boundPort /\ proc' = proc)]_vars

\* Listening with the cache connection re-established after an error and
\* the database connected.
C16_Witness ==
    /\ svc = "listening"
    /\ redisClient.state = "connected"
    /\ redisClient.errors = 1
    /\ db.state = "connected"

----------------------------------------------------------------------------
\* The statements of the script in source order.
StepOrder ==
    <<"require", "port", "app", "createClient", "onError", "onConnect",
      "redisConnect", "dbConnect", "route", "listen", "tick", "loop">>

Rank(label) == CHOOSE k \in DOMAIN StepOrder : StepOrder[k] = label

(* C17: the startup steps run in source order, none repeated and (in the   *)
(* variant with a cache client) none skipped: the port is resolved before  *)
(* the cache client is created, the cache connection is initiated before   *)
(* the document-store connection, that before the route is registered, and *)
(* the route before listen is called; the service is never listening       *)
(* without the GET / route.                                                *)
C17_StartupOrder ==
    /\ [][pc' # pc =>
            (/\ Rank(pc') > Rank(pc)
             /\ variant = 1 => Rank(pc') = Rank(pc) + 1)]_vars
    /\ [](redisClient.created >= 1 => PORT # Undefined)
    /\ [](db.connectCalls >= 1 =>
            /\ PORT # Undefined
            /\ variant = 1 => redisClient.connectCalls = 1)
    /\ [](routes # {} => db.connectCalls = 1)
    /\ [](svc = "listening" \/ ticks # <<>> =>
            /\ <<"GET", "/">> \in routes
            /\ db.connectCalls = 1)
    /\ [](/\ redisClient.created <= 1
          /\ redisClient.connectCalls <= 1
          /\ db.connectCalls <= 1)

\* The script of the first variant has just returned from app.listen.
C17_Witness ==
    /\ variant = 1
    /\ pc = "tick"
    /\ svc = "listening"
    /\ routes = {<<"GET", "/">>}
    /\ redisClient.connectCalls = 1
    /\ db.connectCalls = 1

----------------------------------------------------------------------------
(* C18: the step that answers a GET / changes the response of that request *)
(* and nothing else: not the cache client, not the document-store          *)
(* connection, not the resolved port, not the service state.               *)
C18_HandleFrame ==
    [][(\E i \in DOMAIN reqs :
           IsRootGet(reqs[i]) /\ ~Answered(reqs[i]) /\ Answered(reqs'[i]))
       => (/\ UNCHANGED <<redisClient, db, PORT, svc, boundPort, routes,
                          log, proc, pc, ticks, envPORT>>
           /\ Len(reqs') = Len(reqs)
           /\ \A j \in DOMAIN reqs :
                 (reqs'[j].method = reqs[j].method
                  /\ reqs'[j].path = reqs[j].path))]_vars

\* A GET / has been answered while the cache connection had failed.
C18_Witness ==
    /\ redisClient.state = "failed"
    /\ db.state = "connected"
    /\ \E i \in DOMAIN reqs : IsRootGet(reqs[i]) /\ Answered(reqs[i])

----------------------------------------------------------------------------
\* The log lines that confirm the listener.
ServerLines == {i \in DOMAIN log : log[i][1] = "Server is running on port "}

(* C19: the confirmation is logged only when the bind has succeeded, at    *)
(* most once, and the port it contains is the resolved PORT as well as the *)
(* port the listener is bound to.                                          *)
C19_MessagePortIsBoundPort ==
    \A i \in ServerLines :
        /\ svc = "listening"
        /\ Cardinality(ServerLines) = 1
        /\ log[i][2] = TemplateString(PORT)
        /\ ToNumber(log[i][2]) = boundPort

\* What the callback of app.listen does guarantee: the confirmation follows
\* a successful bind, is logged once and contains the resolved PORT; the
\* listener is bound to that port unless PORT is 0, for which the operating
\* system chose the port and the message still says 0.
MessagePortIsResolvedPort ==
    \A i \in ServerLines :
        /\ svc = "listening"
        /\ boundPort # 0
        /\ Cardinality(ServerLines) = 1
        /\ log[i][2] = TemplateString(PORT)
        /\ PORT = OrDefault(envPORT)
        /\ IF ToNumber(log[i][2]) # 0
              THEN ToNumber(log[i][2]) = boundPort
              ELSE boundPort \in EphemeralPorts

----------------------------------------------------------------------------
(* C20: both observers of the cache client are registered when its         *)
(* connection is initiated, so every 'error' and every 'connect' the       *)
(* client emits is logged and none is emitted while its observer is        *)
(* missing.                                                                *)
C20_ObserversBeforeConnect ==
    /\ [](redisClient.connectCalls >= 1 =>
            redisClient.observers = {"error", "connect"})
    /\ [](Lines("Redis Client Error") = redisClient.errors)
    /\ [][redisClient'.errors # redisClient.errors =>
            (/\ "error" \in redisClient.observers
             /\ log' = Append(log, Line("Redis Client Error",
                                        log'[Len(log')][2])))]_vars
    /\ [][redisClient.state # "connected" /\ redisClient'.state = "connected" =>
            (/\ "connect" \in redisClient.observers
             /\ log' = Append(log, Line("Redis Client Connected", <<>>)))]_vars

\* An error and a later connect of the cache client, both logged.
C20_Witness ==
    /\ redisClient.state = "connected"
    /\ redisClient.errors = 1
    /\ Lines("Redis Client Error") = 1
    /\ Lines("Redis Client Connected") = 1
    /\ log[Len(log)][1] = "Redis Client Connected"

----------------------------------------------------------------------------
(* C21: the document-store connect attempt has at most one outcome: of the *)
(* lines "connect to db ...." and "failed to connect to db" at most one is *)
(* logged, at most once; the one that is logged tells the outcome, and an  *)
(* outcome, once reached, is final.                                        *)
C21_OneDbOutcome ==
    /\ [](Lines("connect to db ....") + Lines("failed to connect to db  ") <= 1)
    /\ [](Lines("connect to db ....") = 1 <=> db.state = "connected")
    /\ [](Lines("failed to connect to db  ") = 1 <=> db.state = "failed")
    /\ [][db.state \in {"connected", "failed"} => db' = db]_vars

\* The attempt has succeeded and its line is the last of the log, after the
\* cache client has failed.
C21_Witness ==
    /\ db.state = "connected"
    /\ redisClient.state = "failed"
    /\ Lines("connect to db ....") = 1
    /\ Lines("failed to connect to db  ") = 0
    /\ log[Len(log)][1] = "connect to db ...."

----------------------------------------------------------------------------
\* Neither connection attempt has completed.
StoresPending ==
    /\ redisClient.state \notin {"connected", "failed"}
    /\ db.state \notin {"connected", "failed"}

\* The listener is bound, its confirmation is logged and the event loop
\* runs.
Serving == svc = "listening" /\ ServerLines # {} /\ pc = "loop"

(* C22: under weak fairness of the runtime (the script's statements, the   *)
(* nextTick queue, the event loop), the startup ends: either an exception  *)
(* has ended the process (the bind did not succeed, or an earlier          *)
(* statement threw), or the service is listening with its confirmation     *)
(* logged; a successful bind always leads there, and so does every run in  *)
(* which neither connection attempt ever completes.                        *)
C22_EventuallyListening ==
    /\ <>(proc = "crashed" \/ Serving)
    /\ (svc = "listening") ~> Serving
    /\ ([]StoresPending) => <>(proc = "crashed" \/ (Serving /\ StoresPending))

\* The service serves while both connection attempts are still pending.
C22_Witness ==
    /\ Serving
    /\ variant = 1
    /\ redisClient.state = "connecting"
    /\ db.state = "connecting"
    /\ Len(reqs) = MaxReq
    /\ \A i \in DOMAIN reqs : Answered(reqs[i])

----------------------------------------------------------------------------
(* C23: while the service is starting there is no request and no response; *)
(* requests are received and answered only by a listening service; a       *)
(* response is given to a request that was received and has none yet, and  *)
(* is never replaced; and, the runtime being fair, every GET / that was    *)
(* received gets its response.                                             *)
C23_ResponsesOnlyWhenListening ==
    /\ [](svc = "starting" => reqs = <<>>)
    /\ [](\A i \in DOMAIN reqs : Answered(reqs[i]) => svc = "listening")
    /\ [][reqs' # reqs => svc = "listening" /\ svc' = "listening"]_vars
    /\ [][\A i \in DOMAIN reqs' :
            Answered(reqs'[i]) =>
                (i \in DOMAIN reqs /\
                   (Answered(reqs[i]) => reqs'[i].resp = reqs[i].resp))]_vars
    /\ \A k \in 1..MaxReq :
          (Len(reqs) >= k /\ IsRootGet(reqs[k]))
             ~> (Len(reqs) >= k /\ reqs[k].resp = Hello200)

\* Every request of the run was a GET / and has its response, in the variant
\* without a cache client, the document store having failed.
C23_Witness ==
    /\ variant = 2
    /\ db.state = "failed"
    /\ Len(reqs) = MaxReq
    /\ \A i \in DOMAIN reqs : IsRootGet(reqs[i]) /\ reqs[i].resp = Hello200

----------------------------------------------------------------------------
\* What line 6 / 40 should resolve for a value of the PORT variable: 4000
\* for an unset and for an empty variable, the variable's string otherwise.
ResolvedFor(v) ==
    IF v = Undefined \/ v = Str(<<>>) THEN Num(DefaultPort) ELSE v

(* C24: once the script has executed line 6 / 40, an empty PORT variable   *)
(* has been resolved like an unset one, to 4000, and a non-empty one, "0"  *)
(* included, to the string it holds.                                       *)
C24_EmptyLikeUnset ==
    PastPortResolution =>
        /\ envPORT = Str(<<>>) => PORT = Num(DefaultPort)
        /\ (envPORT.kind = "string" /\ envPORT.s # <<>>) => PORT = envPORT

\* What `||` does where line 6 / 40 returns: the same as ResolvedFor.
OrDefaultOnRunningHost ==
    /\ \A v \in EnvValues : OrDefault(v) = ResolvedFor(v)
    /\ (PastPortResolution /\ ~(pc = "port" /\ proc = "crashed"))
          => PORT = ResolvedFor(envPORT)

----------------------------------------------------------------------------
(* What an HTTP client can observe of the process, and the steps of the    *)
(* HTTP interface, written without the variant and without the stores.     *)
HttpView == <<svc, boundPort, reqs, proc>>

\* The answer the interface owes to a request.
Expected(method, path) ==
    IF method = "GET" /\ path = "/"
        THEN Hello200 ELSE [status |-> 404, body |-> "Not Found"]

\* The listener is bound to the port the PORT variable asks for, a port of
\* the operating system's choice when it asks for 0.
HttpBind ==
    /\ svc = "starting" /\ svc' = "listening"
    /\ LET n == ListenPort(OrDefault(envPORT)) IN
          boundPort' \in (IF n = 0 THEN EphemeralPorts ELSE {n})
    /\ UNCHANGED <<reqs, proc>>

HttpArrive ==
    /\ svc = "listening"
    /\ \E m \in Methods, p \in Paths :
          reqs' = Append(reqs, [method |-> m, path |-> p, resp |-> NoResponse])
    /\ UNCHANGED <<svc, boundPort, proc>>

HttpRespond ==
    /\ svc = "listening"
    /\ \E i \in DOMAIN reqs :
          /\ ~Answered(reqs[i])
          /\ reqs' = [reqs EXCEPT ![i].resp =
                         Expected(reqs[i].method, reqs[i].path)]
    /\ UNCHANGED <<svc, boundPort, proc>>

\* The process ends before it serves anything.
HttpAbort ==
    /\ svc = "starting"
    /\ reqs = <<>>
    /\ proc' = "crashed"
    /\ UNCHANGED <<svc, boundPort, reqs>>

HttpNext == HttpBind \/ HttpArrive \/ HttpRespond \/ HttpAbort

\* The log without the lines of the cache client's observers.
RECURSIVE WithoutCacheLines(_)
WithoutCacheLines(l) ==
    IF l = <<>> THEN <<>>
    ELSE IF Head(l)[1] \in {"Redis Client Error", "Redis Client Connected"}
            THEN WithoutCacheLines(Tail(l))
            ELSE <<Head(l)>> \o WithoutCacheLines(Tail(l))

(* C25: both variants of the script implement the same HTTP interface:     *)
(* every step of either variant is a step of HttpNext or leaves HttpView   *)
(* unchanged, so the port bound is the same function of the PORT variable  *)
(* and the responses the same function of the requests; in either variant  *)
(* a request that waits can be answered at any time in the event loop;     *)
(* and the variants differ in the cache client and its log lines only: the *)
(* second has none, and in the first a step of the cache client changes    *)
(* nothing but the client and the log, to which it adds cache lines only.  *)
C25_VariantsEquivalentOnHttp ==
    /\ [][HttpNext]_HttpView
    /\ [](\A i \in DOMAIN reqs :
            (Running("loop") /\ ~Answered(reqs[i])) => ENABLED Handle(i))
    /\ [](variant = 2 =>
            /\ redisClient.created = 0 /\ redisClient.state = "none"
            /\ WithoutCacheLines(log) = log)
    /\ [][redisClient' # redisClient =>
            (/\ variant = 1
             /\ UNCHANGED <<HttpView, db, PORT, routes, ticks>>
             /\ WithoutCacheLines(log') = WithoutCacheLines(log))]_vars

\* The variant with a cache client serves port 3000 with the cache client
\* connected and its line in the log.
C25_Witness ==
    /\ variant = 1
    /\ boundPort = 3000
    /\ redisClient.state = "connected"
    /\ WithoutCacheLines(log) # log
    /\ Len(reqs) = MaxReq
    /\ \A i \in DOMAIN reqs :
          reqs[i].resp = Expected(reqs[i].method, reqs[i].path)

----------------------------------------------------------------------------
\* The reachability of the stores as a run has shown it so far.
CacheFailed == redisClient.errors > 0
DbDown      == db.state = "failed"

\* The responses given so far, as a function of the request's position.
Responses == [i \in DOMAIN reqs |-> reqs[i].resp]

(* C26: nothing of the stores flows into what an HTTP client observes: the *)
(* response to a request is determined by its method and path, whether the *)
(* cache and the document store were reached, were not reached or are      *)
(* still being tried; a step in which a store's connection changes (an     *)
(* attempt completes, fails or is retried) changes no response, no request *)
(* and nothing of the listener; and whatever the stores' states, a request *)
(* that waits can be answered, with the answer owed to it.                 *)
C26_StoresDoNotReachClients ==
    /\ [](\A i \in DOMAIN reqs :
            Answered(reqs[i]) =>
                reqs[i].resp = Expected(reqs[i].method, reqs[i].path))
    /\ [][(redisClient' # redisClient \/ db' # db) =>
            (/\ Responses' = Responses
             /\ UNCHANGED <<reqs, svc, boundPort, proc, routes>>)]_vars
    /\ [](\A i \in DOMAIN reqs :
            (Running("loop") /\ ~Answered(reqs[i])) =>
                /\ ENABLED Handle(i)
                /\ Respond(routes, reqs[i].method, reqs[i].path)
                      = Expected(reqs[i].method, reqs[i].path))

\* Both stores were unreachable, and every request, those for the route and
\* those for none, has the answer owed to it.
C26_Witness ==
    /\ CacheFailed /\ DbDown
    /\ Len(reqs) = MaxReq
    /\ IsRootGet(reqs[1])
    /\ ~IsRootGet(reqs[MaxReq])
    /\ \A i \in DOMAIN reqs :
          reqs[i].resp = Expected(reqs[i].method, reqs[i].path)

\* The same requests answered the same way with both stores reached.
C26_StoresReached ==
    /\ redisClient.state = "connected" /\ ~CacheFailed
    /\ db.state = "connected"
    /\ Len(reqs) = MaxReq
    /\ IsRootGet(reqs[1])
    /\ ~IsRootGet(reqs[MaxReq])
    /\ \A i \in DOMAIN reqs :
          reqs[i].resp = Expected(reqs[i].method, reqs[i].path)

----------------------------------------------------------------------------
\* The number of lines of server.js's log with the given text.
SjLines(text) ==
    Cardinality({i \in DOMAIN serverJs.log : serverJs.log[i][1] = text})

====
